---- MODULE Spec2Model ----
(***************************************************************************)
(* Model of tutorial_notebooks/Tut5_Word_Embeddings_Student.ipynb: the     *)
(* text-vectorization -> token materialization -> Word2Vec -> embedding    *)
(* table pipeline of the demo part of the notebook.                        *)
(*                                                                         *)
(* Strings are sequences of one-character strings, so that splitting on    *)
(* whitespace and joining with spaces are computed, not assumed.           *)
(* Vocabulary indices are 0-based as in Python: index i is vocab[i + 1].   *)
(***************************************************************************)
EXTENDS Integers, Sequences, FiniteSets, TLC

VARIABLES
    pc,                  \* position in the notebook's cell sequence
    Xclean_train,        \* training split: sequence of cleaned documents
    vocab,               \* vectorize_layer.get_vocabulary() (<<>> before adapt)
    test_doc,            \* Xclean_test.iloc[0], once it has been encoded
    test_vec,            \* its TokenIdSequence, shown by the cell that encodes
                         \* it and kept by the kernel (<<>> before that cell)
    X_train_vec,         \* vectorize_layer(Xclean_train)
    X_train_words,       \* materialized token lists
    wv_cbow,             \* w2v_model_cbow.wv: token -> vector
    wv_skipgram,         \* w2v_model_skipgram.wv: token -> vector
    layer_cbow,          \* embedding_layer_cbow.get_weights()[0]
    layer_skipgram,      \* embedding_layer_skipgram.get_weights()[0]
    embeddings_cbow,     \* the list embeddings_cbow
    embeddings_skipgram, \* the list embeddings_skipgram
    token_idx,           \* loop variable of the assembly loop
    review,              \* one value of df['review'], given to the normalizer
    cleaned,             \* <<its normalized string>>, <<>> while there is none
    recleaned,           \* <<the normalized string normalized again>>, or <<>>
    clean_pc,            \* position of the normalization of review
    nr_run,              \* loop variable of the exercise's for nr_run in [0,1]
    cbow_mlp_model,      \* embedding layer of cbow_mlp_model
    skipgram_mlp_model,  \* embedding layer of skipgram_mlp_model
    exercise_pc,         \* position in the exercise cell
    cbow_proba_pr,       \* cbow_mlp_model's probabilities, in ten-thousandths
    cbow_class_pr,       \* the classes np.where gives them
    skipgram_proba_pr,   \* skipgram_mlp_model's probabilities
    skipgram_class_pr    \* the classes np.where gives them

\* the variables of the demo part: vectorization, Word2Vec, embedding tables
demo_vars == <<pc, Xclean_train, vocab, test_doc, test_vec, X_train_vec,
               X_train_words, wv_cbow, wv_skipgram, layer_cbow, layer_skipgram,
               embeddings_cbow, embeddings_skipgram, token_idx>>

\* the variables of the normalization of one review
clean_vars == <<review, cleaned, recleaned, clean_pc>>

\* the variables of the exercise cell
exercise_vars == <<nr_run, cbow_mlp_model, skipgram_mlp_model, exercise_pc>>

\* the predictions of the exercise cell (<<>> before the first predict)
predict_vars == <<cbow_proba_pr, cbow_class_pr,
                  skipgram_proba_pr, skipgram_class_pr>>

vars == <<demo_vars, clean_vars, exercise_vars, predict_vars>>

(***************************************************************************)
(* Configuration of the notebook, scaled down for model checking           *)
(* (notebook values: 15000, 100, 100, 300).                                *)
(***************************************************************************)
vocab_size == 4
seq_length == 2
min_count == 2
embeddings_dimension == 1

(***************************************************************************)
(* Bounds of the model.                                                    *)
(***************************************************************************)
\* most characters of the training split (a separator between two documents
\* counts as one)
MaxTrainLen == 6
\* the same, for the specification of the adapt step alone
MaxAdaptLen == 8
\* longest test document (characters) given to the adapted layer
MaxTestLen == 3

Alphabet == {"a", "b", " "}

mask_token == <<>>
oov_token == <<"[", "U", "N", "K", "]">>

\* byte value of a character (bytewise string order of the vocabulary sort)
CharCode(c) ==
    CASE c = " " -> 32
      [] c = "K" -> 75
      [] c = "N" -> 78
      [] c = "U" -> 85
      [] c = "[" -> 91
      [] c = "]" -> 93
      [] c = "a" -> 97
      [] c = "b" -> 98

Range(s) == {s[i] : i \in DOMAIN s}

\* all strings over Alphabet of length at most n
Strings(n) == UNION {[1..k -> Alphabet] : k \in 0..n}

\* embedding vectors: embeddings_dimension coordinates, each 0 or 1
Coords == {0, 1}
Vecs == [1..embeddings_dimension -> Coords]

(***************************************************************************)
(* TextVectorization(standardize=None, max_tokens=vocab_size,              *)
(*                   output_sequence_length=seq_length)                    *)
(***************************************************************************)
RECURSIVE SplitAcc(_, _, _, _)
SplitAcc(s, i, cur, acc) ==
    IF i > Len(s)
    THEN IF cur = <<>> THEN acc ELSE Append(acc, cur)
    ELSE IF s[i] = " "
         THEN SplitAcc(s, i + 1, <<>>, IF cur = <<>> THEN acc ELSE Append(acc, cur))
         ELSE SplitAcc(s, i + 1, Append(cur, s[i]), acc)

\* the layer's default split="whitespace": maximal runs of non-space characters
whitespace_split(s) == SplitAcc(s, 1, <<>>, <<>>)

\* ' '.join(words)
RECURSIVE JoinWords(_)
JoinWords(words) ==
    IF words = <<>> THEN <<>>
    ELSE IF Len(words) = 1 THEN Head(words)
    ELSE Head(words) \o <<" ">> \o JoinWords(Tail(words))

\* the cleaned strings NLP_preprocessing_pipeline can return: words joined
\* by single spaces
CleanStrings(n) == {s \in Strings(n) : s = JoinWords(whitespace_split(s))}

RECURSIVE AllTokens(_)
AllTokens(docs) ==
    IF docs = <<>> THEN <<>>
    ELSE whitespace_split(Head(docs)) \o AllTokens(Tail(docs))

\* number of occurrences of token t in the token sequence toks
Count(t, toks) == Cardinality({i \in DOMAIN toks : toks[i] = t})

\* bytewise s < t
StrLess(s, t) ==
    \E i \in 1..Len(t) :
        /\ \A j \in 1..(i - 1) : j <= Len(s) /\ s[j] = t[j]
        /\ (i > Len(s) \/ CharCode(s[i]) < CharCode(t[i]))

\* the order of the learned vocabulary: higher count first, ties by the
\* greater string first (a lexsort on (count, token), reversed)
Before(t, u, toks) ==
    \/ Count(t, toks) > Count(u, toks)
    \/ Count(t, toks) = Count(u, toks) /\ StrLess(u, t)

RECURSIVE SortTokens(_, _)
SortTokens(S, toks) ==
    IF S = {} THEN <<>>
    ELSE LET t == CHOOSE x \in S : \A u \in S \ {x} : Before(x, u, toks)
         IN  <<t>> \o SortTokens(S \ {t}, toks)

Min(a, b) == IF a <= b THEN a ELSE b

\* as AdaptVocabulary, but keeping the least frequent tokens
AdaptVocabularyLeastFrequent(docs) ==
    LET toks   == AllTokens(docs)
        sorted == SortTokens(Range(toks), toks)
        n      == Min(Len(sorted), vocab_size - 2)
    IN  <<mask_token, oov_token>>
           \o SubSeq(sorted, Len(sorted) - n + 1, Len(sorted))

\* the vocabulary learned by adapt(docs): '' and '[UNK]', then the
\* vocab_size - 2 most frequent tokens
AdaptVocabulary(docs) ==
    LET toks   == AllTokens(docs)
        sorted == SortTokens(Range(toks), toks)
    IN  <<mask_token, oov_token>>
           \o SubSeq(sorted, 1, Min(Len(sorted), vocab_size - 2))

\* as Lookup, but an absent token gets the padding index
LookupAbsentAsPad(v, t) ==
    IF \E i \in 1..Len(v) : v[i] = t
    THEN (CHOOSE i \in 1..Len(v) : v[i] = t) - 1
    ELSE 0

\* index of a token in vocabulary v (0-based); index 1 when absent
Lookup(v, t) ==
    IF \E i \in 1..Len(v) : v[i] = t
    THEN (CHOOSE i \in 1..Len(v) : v[i] = t) - 1
    ELSE 1

\* as PadOrTruncate, but never cutting
PadOnly(ids) ==
    [i \in 1..(IF Len(ids) > seq_length THEN Len(ids) ELSE seq_length) |->
        IF i <= Len(ids) THEN ids[i] ELSE 0]

\* as PadOrTruncate, but filling with 0 on the left
PadLeft(ids) ==
    LET n == Min(Len(ids), seq_length)
    IN  [i \in 1..seq_length |->
            IF i <= seq_length - n THEN 0 ELSE ids[i - (seq_length - n)]]

\* output_sequence_length: cut after seq_length entries, fill with 0 on the right
PadOrTruncate(ids) ==
    [i \in 1..seq_length |-> IF i <= Len(ids) THEN ids[i] ELSE 0]

\* calling the adapted layer on one document
vectorize_layer(v, doc) ==
    LET toks == whitespace_split(doc)
    IN  PadOrTruncate([i \in 1..Len(toks) |-> Lookup(v, toks[i])])

(***************************************************************************)
(* X_train_words: [vocab[w] for w in rev if vocab[w] not in ['','[UNK]']]  *)
(***************************************************************************)
IsRealWord(w) == w \notin {mask_token, oov_token}

\* as MaterializeWords, but dropping the padding marker only
MaterializeKeepUnk(v, rev) ==
    SelectSeq([i \in 1..Len(rev) |-> v[rev[i] + 1]], LAMBDA w : w # mask_token)

\* as MaterializeWords, but in reverse order
MaterializeReversed(v, rev) ==
    SelectSeq([i \in 1..Len(rev) |-> v[rev[Len(rev) + 1 - i] + 1]], IsRealWord)

MaterializeWords(v, rev) ==
    SelectSeq([i \in 1..Len(rev) |-> v[rev[i] + 1]], IsRealWord)

(***************************************************************************)
(* Word2Vec(X_train_words, min_count=min_count, ...).wv                    *)
(***************************************************************************)
RECURSIVE Flatten(_)
Flatten(lists) ==
    IF lists = <<>> THEN <<>> ELSE Head(lists) \o Flatten(Tail(lists))

\* as TrainedKeys, but without the min_count cut
TrainedKeysNoCut(lists) == Range(Flatten(lists))

\* the tokens that survive the min_count cut
TrainedKeys(lists) ==
    LET toks == Flatten(lists)
    IN  {t \in Range(toks) : Count(t, toks) >= min_count}

(***************************************************************************)
(* One row of the assembly loop, for one embedding variant.                *)
(***************************************************************************)
\* as AssembleRow, but taking the fallback vector from row 0
AssembleRowFallbackZero(idx, v, wv, layer) ==
    IF idx > 1
    THEN IF v[idx + 1] \in DOMAIN wv
         THEN wv[v[idx + 1]]
         ELSE layer[0 + 1]
    ELSE layer[idx + 1]

AssembleRow(idx, v, wv, layer) ==
    IF idx > 1
    THEN IF v[idx + 1] \in DOMAIN wv
         THEN wv[v[idx + 1]]
         ELSE layer[1 + 1]
    ELSE layer[idx + 1]

(***************************************************************************)
(* Initial states: the cleaned training split is given, nothing has run.   *)
(***************************************************************************)
\* CleanStrings, tabulated by length bound
CleanUpTo ==
    [k \in 0..(IF MaxTrainLen > MaxAdaptLen THEN MaxTrainLen ELSE MaxAdaptLen)
        |-> CleanStrings(k)]

\* training splits of one or two cleaned documents, n characters at most
Corpora(n) ==
    {<<d>> : d \in CleanUpTo[n]}
       \cup UNION {{<<d, e>> : e \in CleanUpTo[n - 1 - Len(d)]} :
                      d \in CleanUpTo[n - 1]}

(***************************************************************************)
(* Normalization: NLP_preprocessing_pipeline, applied to one review.       *)
(* Texts are sequences of characters. NLTK's tagger, WordNet and the       *)
(* stopword list are tabulated for the words of the modelled reviews.      *)
(***************************************************************************)
\* most pieces (words, tags, URLs, punctuation) of a modelled review
MaxPieces == 3

ascii_lowercase == <<"a", "b", "c", "d", "e", "f", "g", "h", "i", "j", "k", "l", "m", "n", "o", "p", "q", "r", "s", "t", "u", "v", "w", "x", "y", "z">>
ascii_uppercase == <<"A", "B", "C", "D", "E", "F", "G", "H", "I", "J", "K", "L", "M", "N", "O", "P", "Q", "R", "S", "T", "U", "V", "W", "X", "Y", "Z">>

IsLetter(c) == c \in Range(ascii_lowercase) \cup Range(ascii_uppercase)

\* what a review is made of; pieces are separated by single spaces
Pieces ==
    {
    <<"c", "a", "n", "s">>, <<"C", "a", "n">>,
    <<"b", "a", "t", "s">>, <<"h", "a", "n", "g", "i", "n", "g">>,
    <<"u", "s">>, <<"c", "a", "n", "n", "o", "t">>,
    <<"H", "T", "T", "P">>, <<"H", "T", "T", "P", "A">>,
    <<"h", "t", "t", "p", ":", "/", "/", "a">>, <<"<", "b", "r", " ", "/", ">">>,
    <<"!">>
    }

RECURSIVE JoinedPieces(_)
\* the texts of exactly n pieces
JoinedPieces(n) ==
    IF n = 0 THEN {<<>>}
    ELSE IF n = 1 THEN Pieces
    ELSE {p \o <<" ">> \o t : p \in Pieces, t \in JoinedPieces(n - 1)}

\* a Python value: a str with its text, or a value of another type (a missing
\* review is read by pandas as the float nan)
StrValue(t) == [kind |-> "str", text |-> t]
NonStrValues == {[kind |-> k, text |-> <<>>] : k \in {"float", "NoneType", "int"}}
Reviews ==
    {StrValue(t) : t \in UNION {JoinedPieces(n) : n \in 0..MaxPieces}}
        \cup NonStrValues

\* first position from i on that holds a space, Len(s) + 1 when there is none
RECURSIVE RunEnd(_, _)
RunEnd(s, i) ==
    IF i > Len(s) \/ s[i] = " " THEN i ELSE RunEnd(s, i + 1)

http == <<"h", "t", "t", "p">>

\* as RemoveUrlsFrom, but "http" alone is deleted as well
RECURSIVE RemoveUrlsStar(_, _)
RemoveUrlsStar(s, i) ==
    IF i > Len(s) THEN <<>>
    ELSE IF i + 3 <= Len(s) /\ SubSeq(s, i, i + 3) = http
         THEN RemoveUrlsStar(s, RunEnd(s, i + 4))
         ELSE <<s[i]>> \o RemoveUrlsStar(s, i + 1)

\* the rest of s from position i on without the matches of "http\S+": "http"
\* and at least one more non-space character, up to the next space
RECURSIVE RemoveUrlsFrom(_, _)
RemoveUrlsFrom(s, i) ==
    IF i > Len(s) THEN <<>>
    ELSE IF /\ i + 4 <= Len(s)
            /\ SubSeq(s, i, i + 3) = http
            /\ s[i + 4] # " "
         THEN RemoveUrlsFrom(s, RunEnd(s, i + 4))
         ELSE <<s[i]>> \o RemoveUrlsFrom(s, i + 1)

\* as RemoveUrls, but for the pattern "http\S*"
RemoveUrlsAnyLength(s) == RemoveUrlsStar(s, 1)

\* re.sub("http\S+", "", s)
RemoveUrls(s) == RemoveUrlsFrom(s, 1)

\* first position from i on that holds ">", 0 when there is none
RECURSIVE TagEnd(_, _)
TagEnd(s, i) ==
    IF i > Len(s) THEN 0
    ELSE IF s[i] = ">" THEN i ELSE TagEnd(s, i + 1)

\* BeautifulSoup(s).get_text() from position i: a "<" followed by a letter or
\* "/" opens a tag, which is dropped up to its ">"
RECURSIVE get_text(_, _)
get_text(s, i) ==
    IF i > Len(s) THEN <<>>
    ELSE IF /\ s[i] = "<"
            /\ i < Len(s)
            /\ (IsLetter(s[i + 1]) \/ s[i + 1] = "/")
            /\ TagEnd(s, i) # 0
         THEN get_text(s, TagEnd(s, i) + 1)
         ELSE <<s[i]>> \o get_text(s, i + 1)

\* re.sub("[^a-zA-Z]", " ", s)
ReplaceNonLetters(s) ==
    [i \in 1..Len(s) |-> IF IsLetter(s[i]) THEN s[i] ELSE " "]

LowerChar(c) ==
    IF c \in Range(ascii_uppercase)
    THEN ascii_lowercase[CHOOSE i \in 1..26 : ascii_uppercase[i] = c]
    ELSE c

\* s.lower()
lower(s) == [i \in 1..Len(s) |-> LowerChar(s[i])]

\* the Treebank tokenizer's contractions that are made of letters only
\* (CONTRACTIONS2): each is split in two tokens
CONTRACTIONS2 ==
    {
    <<<<"c", "a", "n">>, <<"n", "o", "t">>>>,
    <<<<"g", "i", "m">>, <<"m", "e">>>>,
    <<<<"g", "o", "n">>, <<"n", "a">>>>,
    <<<<"g", "o", "t">>, <<"t", "a">>>>,
    <<<<"l", "e", "m">>, <<"m", "e">>>>,
    <<<<"w", "a", "n">>, <<"n", "a">>>>
    }

RECURSIVE SplitContractions(_)
SplitContractions(words) ==
    IF words = <<>> THEN <<>>
    ELSE IF \E c \in CONTRACTIONS2 : c[1] \o c[2] = Head(words)
         THEN (CHOOSE c \in CONTRACTIONS2 : c[1] \o c[2] = Head(words))
                  \o SplitContractions(Tail(words))
         ELSE <<Head(words)>> \o SplitContractions(Tail(words))

\* nltk.word_tokenize(s), for a text of lower-case letters and spaces
word_tokenize(s) == SplitContractions(whitespace_split(s))

\* stopwords.words("english"), the part of the list the reviews can meet
stopwords ==
    {
    <<"i">>, <<"m", "e">>, <<"m", "y">>, <<"w", "e">>,
    <<"o", "u", "r">>, <<"y", "o", "u">>, <<"h", "e">>, <<"s", "h", "e">>,
    <<"i", "t">>, <<"t", "h", "e", "y">>, <<"t", "h", "i", "s">>, <<"t", "h", "a", "t">>,
    <<"i", "s">>, <<"a", "r", "e">>, <<"w", "a", "s">>, <<"b", "e">>,
    <<"a">>, <<"a", "n">>, <<"t", "h", "e">>, <<"a", "n", "d">>,
    <<"b", "u", "t">>, <<"i", "f">>, <<"o", "r">>, <<"o", "f">>,
    <<"a", "t">>, <<"b", "y">>, <<"f", "o", "r">>, <<"w", "i", "t", "h">>,
    <<"t", "o">>, <<"i", "n">>, <<"o", "n">>, <<"n", "o">>,
    <<"n", "o", "t">>, <<"c", "a", "n">>, <<"w", "i", "l", "l">>
    }

\* [w for w in words if w not in stopwords.words("english")]
RemoveStopwords(words) ==
    SelectSeq(words, LAMBDA w : w \notin stopwords)

\* nltk.pos_tag([word])[0][1], the tag the tagger gives the word alone
pos_tag(word) ==
    CASE word = <<"c", "a", "n", "s">> -> <<"N", "N", "S">>
      [] word = <<"b", "a", "t", "s">> -> <<"N", "N", "S">>
      [] word = <<"h", "a", "n", "g", "i", "n", "g">> -> <<"V", "B", "G">>
      [] word = <<"h", "a", "n", "g">> -> <<"V", "B">>
      [] word = <<"u", "s">> -> <<"P", "R", "P">>
      [] OTHER -> <<"N", "N">>

\* get_wordnet_pos: tag_dict.get(tag, wordnet.NOUN) on the tag's first letter
get_wordnet_pos(word) ==
    LET tag == pos_tag(word)[1]
    IN  CASE tag = "J" -> "a"
          [] tag = "N" -> "n"
          [] tag = "V" -> "v"
          [] tag = "R" -> "r"
          [] OTHER -> "n"

\* WordNet's lemmas of the modelled words, by part of speech
WordNet(pos) ==
    CASE pos = "n" -> {<<"c", "a", "n">>, <<"b", "a", "t">>, <<"h", "a", "n", "g">>, <<"h", "a", "n", "g", "i", "n", "g">>, <<"u", "s">>, <<"u">>,
                       <<"h", "t", "t", "p">>}
      [] pos = "v" -> {<<"c", "a", "n">>, <<"b", "a", "t">>, <<"h", "a", "n", "g">>}
      [] OTHER -> {}

\* WordNet's detachment rules (MORPHOLOGICAL_SUBSTITUTIONS): ending, replacement
Substitutions(pos) ==
    CASE pos = "n" -> {<<<<"s">>, <<>>>>, <<<<"s", "e", "s">>, <<"s">>>>, <<<<"v", "e", "s">>, <<"f">>>>,
                       <<<<"x", "e", "s">>, <<"x">>>>, <<<<"z", "e", "s">>, <<"z">>>>, <<<<"c", "h", "e", "s">>, <<"c", "h">>>>,
                       <<<<"s", "h", "e", "s">>, <<"s", "h">>>>, <<<<"m", "e", "n">>, <<"m", "a", "n">>>>, <<<<"i", "e", "s">>, <<"y">>>>}
      [] pos = "v" -> {<<<<"s">>, <<>>>>, <<<<"i", "e", "s">>, <<"y">>>>, <<<<"e", "s">>, <<"e">>>>,
                       <<<<"e", "s">>, <<>>>>, <<<<"e", "d">>, <<"e">>>>, <<<<"e", "d">>, <<>>>>,
                       <<<<"i", "n", "g">>, <<"e">>>>, <<<<"i", "n", "g">>, <<>>>>}
      [] pos = "a" -> {<<<<"e", "r">>, <<>>>>, <<<<"e", "s", "t">>, <<>>>>, <<<<"e", "r">>, <<"e">>>>,
                       <<<<"e", "s", "t">>, <<"e">>>>}
      [] OTHER -> {}

EndsWith(word, ending) ==
    /\ Len(ending) <= Len(word)
    /\ SubSeq(word, Len(word) - Len(ending) + 1, Len(word)) = ending

\* the word and the forms one detachment rule makes of it, as far as WordNet
\* knows them under the part of speech
Lemmas(word, pos) ==
    ({word} \cup {SubSeq(word, 1, Len(word) - Len(r[1])) \o r[2] :
                     r \in {q \in Substitutions(pos) : EndsWith(word, q[1])}})
        \cap WordNet(pos)

\* WordNetLemmatizer().lemmatize(word, pos): the shortest lemma, the word
\* itself when WordNet has none
lemmatize(word, pos) ==
    IF Lemmas(word, pos) = {} THEN word
    ELSE CHOOSE l \in Lemmas(word, pos) :
             \A m \in Lemmas(word, pos) : Len(l) <= Len(m)

\* the tokens that reach the lemmatizer
KeptTokens(textual_sample) ==
    RemoveStopwords(
        word_tokenize(
            lower(ReplaceNonLetters(get_text(RemoveUrls(textual_sample), 1)))))

\* as NLP_preprocessing_pipeline, but changing to lower case after the
\* stopword removal
NLP_lowercase_late(textual_sample) ==
    LET kept == RemoveStopwords(
                    word_tokenize(
                        ReplaceNonLetters(
                            get_text(RemoveUrls(textual_sample), 1))))
        low == [k \in 1..Len(kept) |-> lower(kept[k])]
    IN  JoinWords([k \in 1..Len(low) |->
                      lemmatize(low[k], get_wordnet_pos(low[k]))])

\* NLP_preprocessing_pipeline(textual_sample) for a str
NLP_preprocessing_pipeline(textual_sample) ==
    LET kept == KeptTokens(textual_sample)
    IN  JoinWords([k \in 1..Len(kept) |->
                      lemmatize(kept[k], get_wordnet_pos(kept[k]))])

\* as RaisesTypeError, but any value is taken for a text
NeverRaises(value) == FALSE

\* re.sub raises TypeError ("expected string or bytes-like object") for a
\* value that is not a str
RaisesTypeError(value) == value.kind # "str"

\* the values of the other parts of the notebook while a review is normalized
DemoIdle ==
    /\ pc = "start"
    /\ Xclean_train = <<>>
    /\ vocab = <<>>
    /\ test_doc = <<>>
    /\ test_vec = <<>>
    /\ X_train_vec = <<>>
    /\ X_train_words = <<>>
    /\ wv_cbow = <<>>
    /\ wv_skipgram = <<>>
    /\ layer_cbow = <<>>
    /\ layer_skipgram = <<>>
    /\ embeddings_cbow = <<>>
    /\ embeddings_skipgram = <<>>
    /\ token_idx = 0

CleanIdle ==
    /\ review = StrValue(<<>>)
    /\ cleaned = <<>>
    /\ recleaned = <<>>
    /\ clean_pc = "idle"

ExerciseIdle ==
    /\ nr_run = 0
    /\ cbow_mlp_model = <<>>
    /\ skipgram_mlp_model = <<>>
    /\ exercise_pc = "idle"

PredictIdle ==
    /\ cbow_proba_pr = <<>>
    /\ cbow_class_pr = <<>>
    /\ skipgram_proba_pr = <<>>
    /\ skipgram_class_pr = <<>>

InitNormalize ==
    /\ DemoIdle
    /\ review \in Reviews
    /\ cleaned = <<>>
    /\ recleaned = <<>>
    /\ clean_pc = "raw"
    /\ ExerciseIdle
    /\ PredictIdle

\* X = df['review'].apply(NLP_preprocessing_pipeline), for one review: the
\* first statement of the function raises for a value that is not a str
Normalize ==
    /\ clean_pc = "raw"
    /\ IF RaisesTypeError(review)
       THEN /\ clean_pc' = "error"
            /\ UNCHANGED cleaned
       ELSE /\ cleaned' = <<NLP_preprocessing_pipeline(review.text)>>
            /\ clean_pc' = "cleaned"
    /\ UNCHANGED <<review, recleaned>>
    /\ UNCHANGED <<demo_vars, exercise_vars, predict_vars>>

\* NLP_preprocessing_pipeline applied to its own result
NormalizeAgain ==
    /\ clean_pc = "cleaned"
    /\ recleaned' = <<NLP_preprocessing_pipeline(cleaned[1])>>
    /\ clean_pc' = "recleaned"
    /\ UNCHANGED <<review, cleaned>>
    /\ UNCHANGED <<demo_vars, exercise_vars, predict_vars>>

NextNormalize == Normalize \/ NormalizeAgain

SpecNormalize == InitNormalize /\ [][NextNormalize]_vars

InitWith(corpora) ==
    /\ pc = "start"
    /\ Xclean_train \in corpora
    /\ vocab = <<>>
    /\ test_doc = <<>>
    /\ test_vec = <<>>
    /\ X_train_vec = <<>>
    /\ X_train_words = <<>>
    /\ wv_cbow = <<>>
    /\ wv_skipgram = <<>>
    /\ layer_cbow = <<>>
    /\ layer_skipgram = <<>>
    /\ embeddings_cbow = <<>>
    /\ embeddings_skipgram = <<>>
    /\ token_idx = 0
    /\ CleanIdle
    /\ ExerciseIdle
    /\ PredictIdle

Init == InitWith(Corpora(MaxTrainLen))

InitAdapt == InitWith(Corpora(MaxAdaptLen))

TestDocs == CleanStrings(MaxTestLen)

\* characters of a split: its documents and a separator between two of them
Chars(docs) == Len(JoinWords(docs))

\* the test documents beside the training split train: train_test_split
\* cuts one data set, which has MaxTrainLen characters at most (the
\* separator between the two splits not counted)
TestDocsOf(train) == {d \in TestDocs : Chars(train) + Len(d) <= MaxTrainLen}

(***************************************************************************)
(* Actions: the notebook's cells, in order.                                *)
(***************************************************************************)
\* vectorize_layer.adapt(Xclean_train); vocab = vectorize_layer.get_vocabulary()
Adapt ==
    /\ pc = "start"
    /\ vocab' = AdaptVocabulary(Xclean_train)
    /\ pc' = "adapted"
    /\ UNCHANGED <<clean_vars, exercise_vars, predict_vars>>
    /\ UNCHANGED <<Xclean_train, test_doc, test_vec, X_train_vec, X_train_words,
                   wv_cbow, wv_skipgram, layer_cbow, layer_skipgram,
                   embeddings_cbow, embeddings_skipgram, token_idx>>

\* as EncodeTest, but the layer also learns from the document it is given
EncodeTestAdapting ==
    /\ pc = "adapted"
    /\ \E d \in TestDocsOf(Xclean_train) :
          /\ test_doc' = d
          /\ vocab' = AdaptVocabulary(Xclean_train \o <<d>>)
          /\ test_vec' = vectorize_layer(vocab', d)
    /\ pc' = "test_encoded"
    /\ UNCHANGED <<clean_vars, exercise_vars, predict_vars>>
    /\ UNCHANGED <<Xclean_train, X_train_vec, X_train_words,
                   wv_cbow, wv_skipgram, layer_cbow, layer_skipgram,
                   embeddings_cbow, embeddings_skipgram, token_idx>>

\* vectorize_layer(Xclean_test.iloc[0]) for some document of the test split;
\* the cell shows the encoding
EncodeTest ==
    /\ pc = "adapted"
    /\ \E d \in TestDocsOf(Xclean_train) :
          /\ test_doc' = d
          /\ test_vec' = vectorize_layer(vocab, d)
    /\ pc' = "test_encoded"
    /\ UNCHANGED <<clean_vars, exercise_vars, predict_vars>>
    /\ UNCHANGED <<Xclean_train, vocab, X_train_vec, X_train_words,
                   wv_cbow, wv_skipgram, layer_cbow, layer_skipgram,
                   embeddings_cbow, embeddings_skipgram, token_idx>>

\* X_train_vec = vectorize_layer(Xclean_train), the cell after the one that
\* shows the encoded test document
VectorizeTrain ==
    /\ pc = "test_encoded"
    /\ X_train_vec' = [i \in 1..Len(Xclean_train) |->
                          vectorize_layer(vocab, Xclean_train[i])]
    /\ pc' = "vectorized"
    /\ UNCHANGED <<clean_vars, exercise_vars, predict_vars>>
    /\ UNCHANGED <<Xclean_train, vocab, test_doc, test_vec, X_train_words,
                   wv_cbow, wv_skipgram, layer_cbow, layer_skipgram,
                   embeddings_cbow, embeddings_skipgram, token_idx>>

\* as Materialize, but writing the words over the index sequences as well
MaterializeInPlace ==
    /\ pc = "vectorized"
    /\ X_train_words' = [i \in 1..Len(X_train_vec) |->
                            MaterializeWords(vocab, X_train_vec[i])]
    /\ X_train_vec' = X_train_words'
    /\ pc' = "materialized"
    /\ UNCHANGED <<clean_vars, exercise_vars, predict_vars>>
    /\ UNCHANGED <<Xclean_train, vocab, test_doc, test_vec,
                   wv_cbow, wv_skipgram, layer_cbow, layer_skipgram,
                   embeddings_cbow, embeddings_skipgram, token_idx>>

\* X_train_words = [[vocab[w] for w in rev if ...] for rev in X_train_vec]
Materialize ==
    /\ pc = "vectorized"
    /\ X_train_words' = [i \in 1..Len(X_train_vec) |->
                            MaterializeWords(vocab, X_train_vec[i])]
    /\ pc' = "materialized"
    /\ UNCHANGED <<clean_vars, exercise_vars, predict_vars>>
    /\ UNCHANGED <<Xclean_train, vocab, test_doc, test_vec, X_train_vec,
                   wv_cbow, wv_skipgram, layer_cbow, layer_skipgram,
                   embeddings_cbow, embeddings_skipgram, token_idx>>

\* the vectorization and materialization cells, test document included
NextText == Adapt \/ EncodeTest \/ VectorizeTrain \/ Materialize

SpecText == Init /\ [][NextText]_vars

\* the adapt step alone, on longer training splits
NextAdapt == Adapt

SpecAdapt == InitAdapt /\ [][NextAdapt]_vars

\* w2v_model_cbow = Word2Vec(X_train_words, min_count=min_count, ..., sg=0).
\* Training raises when no token reaches min_count (empty vocabulary).
TrainCBOW ==
    /\ pc = "materialized"
    /\ IF TrainedKeys(X_train_words) = {}
       THEN /\ pc' = "failed"
            /\ UNCHANGED wv_cbow
       ELSE /\ \E f \in [TrainedKeys(X_train_words) -> Vecs] : wv_cbow' = f
            /\ pc' = "cbow_trained"
    /\ UNCHANGED <<clean_vars, exercise_vars, predict_vars>>
    /\ UNCHANGED <<Xclean_train, vocab, test_doc, test_vec, X_train_vec,
                   X_train_words, wv_skipgram, layer_cbow, layer_skipgram,
                   embeddings_cbow, embeddings_skipgram, token_idx>>

\* w2v_model_skipgram = Word2Vec(X_train_words, min_count=min_count, ..., sg=1)
TrainSkipgram ==
    /\ pc = "cbow_trained"
    /\ \E f \in [TrainedKeys(X_train_words) -> Vecs] : wv_skipgram' = f
    /\ pc' = "skipgram_trained"
    /\ UNCHANGED <<clean_vars, exercise_vars, predict_vars>>
    /\ UNCHANGED <<Xclean_train, vocab, test_doc, test_vec, X_train_vec,
                   X_train_words, wv_cbow, layer_cbow, layer_skipgram,
                   embeddings_cbow, embeddings_skipgram, token_idx>>

\* embedding_layer_cbow = keras.layers.Embedding(vocab_size, embeddings_dimension)
\* and build(): vocab_size randomly initialized rows
BuildLayerCBOW ==
    /\ pc = "skipgram_trained"
    /\ \E w \in [1..vocab_size -> Vecs] : layer_cbow' = w
    /\ pc' = "cbow_layer_built"
    /\ UNCHANGED <<clean_vars, exercise_vars, predict_vars>>
    /\ UNCHANGED <<Xclean_train, vocab, test_doc, test_vec, X_train_vec,
                   X_train_words, wv_cbow, wv_skipgram, layer_skipgram,
                   embeddings_cbow, embeddings_skipgram, token_idx>>

\* embedding_layer_skipgram = keras.layers.Embedding(...) and build()
BuildLayerSkipgram ==
    /\ pc = "cbow_layer_built"
    /\ \E w \in [1..vocab_size -> Vecs] : layer_skipgram' = w
    /\ pc' = "assembling"
    /\ UNCHANGED <<clean_vars, exercise_vars, predict_vars>>
    /\ UNCHANGED <<Xclean_train, vocab, test_doc, test_vec, X_train_vec,
                   X_train_words, wv_cbow, wv_skipgram, layer_cbow,
                   embeddings_cbow, embeddings_skipgram, token_idx>>

\* as AssembleStep, but the Skip-Gram table is filled from the CBOW model
\* and the CBOW layer
AssembleStepCrossed ==
    /\ pc = "assembling"
    /\ token_idx < Len(vocab)
    /\ embeddings_cbow' =
          Append(embeddings_cbow, AssembleRow(token_idx, vocab, wv_cbow, layer_cbow))
    /\ embeddings_skipgram' =
          Append(embeddings_skipgram,
                 AssembleRow(token_idx, vocab, wv_cbow, layer_cbow))
    /\ token_idx' = token_idx + 1
    /\ UNCHANGED <<clean_vars, exercise_vars, predict_vars>>
    /\ UNCHANGED <<pc, Xclean_train, vocab, test_doc, test_vec, X_train_vec,
                   X_train_words, wv_cbow, wv_skipgram, layer_cbow, layer_skipgram>>

\* one iteration of: for token_idx in range(0, len(vocab))
AssembleStep ==
    /\ pc = "assembling"
    /\ token_idx < Len(vocab)
    /\ embeddings_cbow' =
          Append(embeddings_cbow, AssembleRow(token_idx, vocab, wv_cbow, layer_cbow))
    /\ embeddings_skipgram' =
          Append(embeddings_skipgram,
                 AssembleRow(token_idx, vocab, wv_skipgram, layer_skipgram))
    /\ token_idx' = token_idx + 1
    /\ UNCHANGED <<clean_vars, exercise_vars, predict_vars>>
    /\ UNCHANGED <<pc, Xclean_train, vocab, test_doc, test_vec, X_train_vec,
                   X_train_words, wv_cbow, wv_skipgram, layer_cbow, layer_skipgram>>

\* embedding_layer_cbow.set_weights(...); embedding_layer_skipgram.set_weights(...)
\* set_weights raises when the table's shape is not (vocab_size, dimension)
SetWeights ==
    /\ pc = "assembling"
    /\ token_idx = Len(vocab)
    /\ IF Len(embeddings_cbow) = vocab_size
       THEN /\ layer_cbow' = embeddings_cbow
            /\ layer_skipgram' = embeddings_skipgram
            /\ pc' = "done"
       ELSE /\ pc' = "failed"
            /\ UNCHANGED <<layer_cbow, layer_skipgram>>
    /\ UNCHANGED <<clean_vars, exercise_vars, predict_vars>>
    /\ UNCHANGED <<Xclean_train, vocab, test_doc, test_vec, X_train_vec,
                   X_train_words, wv_cbow, wv_skipgram,
                   embeddings_cbow, embeddings_skipgram, token_idx>>

(***************************************************************************)
(* Exercise 2: the two classifiers on the Word2Vec tables. What fit learns *)
(* is not modelled: a classifier's embedding layer is its shape, the       *)
(* weights given to it (<<>> stands for the initializer's values, which    *)
(* nothing reads) and whether fit has run on it; predict gives any         *)
(* probability to a test document. Probabilities are counted in            *)
(* ten-thousandths. The argument of np.where is left to the reader of the  *)
(* notebook; the comparison is the specification's.                        *)
(***************************************************************************)
\* len(Xclean_test), scaled down (notebook: a fifth of the reviews)
nr_test_documents == 1

\* the decision threshold 0.5
threshold == 5000

\* the probabilities the modelled predictions are drawn from: the threshold
\* and the nearest value below it
Probabilities == {4999, 5000}

\* the results of predict(Xclean_test...).flatten(): a probability for each
\* test document
Predictions == [1..nr_test_documents -> Probabilities]

\* as ClassOf, but a probability equal to the threshold is class 0
ClassOfStrict(p) == IF p > threshold THEN 1 ELSE 0

\* the class of a probability: 1 at or above the threshold, else 0
ClassOf(p) == IF p >= threshold THEN 1 ELSE 0

\* np.where(...) on the probabilities of one predict
Classes(proba_pr) == [i \in 1..Len(proba_pr) |-> ClassOf(proba_pr[i])]

\* the embedding layer of a new classifier: vocabulary size and embedding
\* dimension of the demo; frozen in run 0, trainable in run 1
NewEmbedding(run) ==
    [input_dim |-> vocab_size, output_dim |-> embeddings_dimension,
     trainable |-> (run = 1), weights |-> <<>>, fitted |-> FALSE]

\* as ShapeMatches, but any table is accepted
ShapeUnchecked(layer, table) == TRUE

\* the test of set_weights: the given array has the layer's weight shape
ShapeMatches(layer, table) ==
    /\ Len(table) = layer.input_dim
    /\ \A i \in 1..Len(table) : Len(table[i]) = layer.output_dim

\* the exercise cell is run with both tables assembled, whether or not the
\* demo's own set_weights cell failed
TablesAssembled ==
    /\ pc \in {"done", "failed"}
    /\ token_idx > 0
    /\ token_idx = Len(vocab)

\* cbow_mlp_model = Sequential([...]); skipgram_mlp_model = Sequential([...])
BuildModels ==
    /\ TablesAssembled
    /\ exercise_pc \in {"idle", "next_run"}
    /\ cbow_mlp_model' = NewEmbedding(nr_run)
    /\ skipgram_mlp_model' = NewEmbedding(nr_run)
    /\ exercise_pc' = "built"
    /\ UNCHANGED nr_run
    /\ UNCHANGED <<demo_vars, clean_vars, predict_vars>>

\* compile(...) and layers[1].set_weights(np.array([embeddings_...])) for the
\* two classifiers; set_weights raises ValueError on a table of another shape
CompileSetWeights ==
    /\ exercise_pc = "built"
    /\ IF ~ShapeMatches(cbow_mlp_model, embeddings_cbow)
       THEN /\ exercise_pc' = "error"
            /\ UNCHANGED <<cbow_mlp_model, skipgram_mlp_model>>
       ELSE /\ cbow_mlp_model' = [cbow_mlp_model EXCEPT !.weights = embeddings_cbow]
            /\ IF ~ShapeMatches(skipgram_mlp_model, embeddings_skipgram)
               THEN /\ exercise_pc' = "error"
                    /\ UNCHANGED skipgram_mlp_model
               ELSE /\ skipgram_mlp_model' =
                          [skipgram_mlp_model EXCEPT !.weights = embeddings_skipgram]
                    /\ exercise_pc' = "weights_set"
    /\ UNCHANGED nr_run
    /\ UNCHANGED <<demo_vars, clean_vars, predict_vars>>

\* cbow_mlp_model.fit(...), cbow_proba_pr = ...predict(...).flatten(),
\* cbow_class_pr = np.where(...) and the appended scores
FitCBOW ==
    /\ exercise_pc = "weights_set"
    /\ cbow_mlp_model' = [cbow_mlp_model EXCEPT !.fitted = TRUE]
    /\ \E proba_pr \in Predictions :
          /\ cbow_proba_pr' = proba_pr
          /\ cbow_class_pr' = Classes(proba_pr)
    /\ exercise_pc' = "cbow_fitted"
    /\ UNCHANGED <<nr_run, skipgram_mlp_model, skipgram_proba_pr, skipgram_class_pr>>
    /\ UNCHANGED <<demo_vars, clean_vars>>

\* the same for skipgram_mlp_model, then the next run of for nr_run in [0,1]
FitSkipgram ==
    /\ exercise_pc = "cbow_fitted"
    /\ skipgram_mlp_model' = [skipgram_mlp_model EXCEPT !.fitted = TRUE]
    /\ \E proba_pr \in Predictions :
          /\ skipgram_proba_pr' = proba_pr
          /\ skipgram_class_pr' = Classes(proba_pr)
    /\ IF nr_run = 0
       THEN /\ nr_run' = 1
            /\ exercise_pc' = "next_run"
       ELSE /\ exercise_pc' = "finished"
            /\ UNCHANGED nr_run
    /\ UNCHANGED <<cbow_mlp_model, cbow_proba_pr, cbow_class_pr>>
    /\ UNCHANGED <<demo_vars, clean_vars>>

\* The demo and the exercise, cell after cell.
Next ==
    \/ Adapt
    \/ EncodeTest
    \/ VectorizeTrain
    \/ Materialize
    \/ TrainCBOW
    \/ TrainSkipgram
    \/ BuildLayerCBOW
    \/ BuildLayerSkipgram
    \/ AssembleStep
    \/ SetWeights
    \/ BuildModels
    \/ CompileSetWeights
    \/ FitCBOW
    \/ FitSkipgram

Spec == Init /\ [][Next]_vars

(***************************************************************************)
(* Properties                                                              *)
(***************************************************************************)
Tokens(doc) == whitespace_split(doc)

\* the test document has been encoded
TestEncoded ==
    pc \notin {"start", "adapted"}

TrainVectorized ==
    pc \notin {"start", "adapted", "test_encoded"}

TrainMaterialized ==
    TrainVectorized /\ pc # "vectorized"

\* the entries of a TokenIdSequence that are neither padding nor unknown
IsRealId(w) == w \notin {0, 1}
RealIds(rev) == SelectSeq(rev, IsRealId)

\* C1: every TokenIdSequence the adapted layer produces, for the test
\* document and for every training document, has length exactly seq_length,
\* whatever the number of tokens of the document.
C1_FixedLength ==
    /\ TestEncoded => Len(test_vec) = seq_length
    /\ TrainVectorized =>
          /\ Len(X_train_vec) = Len(Xclean_train)
          /\ \A i \in 1..Len(X_train_vec) : Len(X_train_vec[i]) = seq_length

\* a training document longer than seq_length tokens and an empty one have
\* been vectorized
C1_Witness ==
    /\ pc = "vectorized"
    /\ \E i, j \in 1..Len(Xclean_train) :
          /\ Len(Tokens(Xclean_train[i])) > seq_length
          /\ Len(Tokens(Xclean_train[j])) = 0
          /\ Len(X_train_vec[i]) = seq_length

\* C2: the vocabulary changes only in the adapt step, which builds it from
\* the training split; encoding a test document or the training documents
\* leaves the token-to-index mapping as it was.
C2_VocabularyFrozen ==
    [][vocab' # vocab =>
          /\ pc = "start"
          /\ vocab' = AdaptVocabulary(Xclean_train)
          /\ Xclean_train' = Xclean_train]_vars

\* a test document with a token the vocabulary lacks has been encoded while
\* the vocabulary had room for more tokens
C2_Witness ==
    /\ pc = "test_encoded"
    /\ Len(vocab) < vocab_size
    /\ vocab = AdaptVocabulary(Xclean_train)
    /\ 1 \in Range(test_vec)
    /\ \E i \in 1..Len(Tokens(test_doc)) : Tokens(test_doc)[i] \notin Range(vocab)

\* vec encodes the first seq_length tokens of doc: index 1 for a token the
\* vocabulary lacks, the token's own index (>= 2) otherwise
EncodesTokens(doc, vec) ==
    \A i \in 1..Len(Tokens(doc)) :
        i <= seq_length =>
            /\ Tokens(doc)[i] \notin Range(vocab) => vec[i] = 1
            /\ Tokens(doc)[i] \in Range(vocab) =>
                  /\ vec[i] >= 2
                  /\ vec[i] < Len(vocab)
                  /\ vocab[vec[i] + 1] = Tokens(doc)[i]

\* C3: encoding never fails on an unseen token: every encoded token that the
\* vocabulary lacks gets index 1, every token of the vocabulary its own
\* index, which is at least 2.
C3_UnknownIsOne ==
    /\ TestEncoded => EncodesTokens(test_doc, test_vec)
    /\ TrainVectorized =>
          \A i \in 1..Len(Xclean_train) :
              EncodesTokens(Xclean_train[i], X_train_vec[i])

\* a test document with a token of the vocabulary and an unseen token
C3_Witness ==
    /\ pc = "test_encoded"
    /\ \E i, j \in 1..Len(Tokens(test_doc)) :
          /\ Tokens(test_doc)[i] \in Range(vocab)
          /\ Tokens(test_doc)[j] \notin Range(vocab)
          /\ test_vec[j] = 1

\* vec is the indices of the first min(n, seq_length) tokens of doc, in
\* order, then zeros
RightPadded(doc, vec) ==
    LET n == Min(Len(Tokens(doc)), seq_length)
    IN  /\ DOMAIN vec = 1..seq_length
        /\ \A i \in 1..seq_length :
              IF i <= n
              THEN /\ vec[i] >= 1
                   /\ vec[i] = 1 => Tokens(doc)[i] \notin Range(vocab)
                   /\ vec[i] >= 2 => vocab[vec[i] + 1] = Tokens(doc)[i]
              ELSE vec[i] = 0

\* C4: a TokenIdSequence is the indices of the document's first
\* min(n, seq_length) tokens in document order followed by zeros only;
\* tokens beyond position seq_length are dropped.
C4_RightPadTruncate ==
    /\ TestEncoded => RightPadded(test_doc, test_vec)
    /\ TrainVectorized =>
          \A i \in 1..Len(Xclean_train) :
              RightPadded(Xclean_train[i], X_train_vec[i])

\* a one-token test document was encoded: its known token first, padding
\* after it
C4_Witness ==
    /\ pc = "test_encoded"
    /\ Len(Tokens(test_doc)) = 1
    /\ test_vec[1] >= 2
    /\ test_vec[seq_length] = 0

\* C5: '' is at index 0 and '[UNK]' at index 1; the vocabulary has at most
\* vocab_size entries; the entries from index 2 on are the vocab_size - 2
\* most frequent distinct training tokens (all of them when there are
\* fewer); the strings are pairwise distinct.
C5_VocabularyShape ==
    pc # "start" =>
        LET toks == AllTokens(Xclean_train)
        IN  /\ Len(vocab) >= 2
            /\ vocab[1] = mask_token
            /\ vocab[2] = oov_token
            /\ Len(vocab) <= vocab_size
            /\ Len(vocab) = 2 + Min(Cardinality(Range(toks)), vocab_size - 2)
            /\ \A i \in 3..Len(vocab) :
                  /\ vocab[i] \in Range(toks)
                  /\ \A t \in Range(toks) \ Range(vocab) :
                        Count(vocab[i], toks) >= Count(t, toks)
            /\ \A i, j \in 1..Len(vocab) : vocab[i] = vocab[j] => i = j

\* the training split has more than vocab_size - 2 distinct tokens, and a
\* token left out is strictly rarer than a token kept
C5_Witness ==
    /\ pc = "adapted"
    /\ Len(vocab) = vocab_size
    /\ \E t \in Range(AllTokens(Xclean_train)) \ Range(vocab) :
          \E i \in 3..Len(vocab) :
              Count(vocab[i], AllTokens(Xclean_train))
                  > Count(t, AllTokens(Xclean_train))

\* C6: each materialized token list is the vocabulary strings at the
\* entries of its TokenIdSequence that are neither 0 nor 1, in the original
\* order; no token list contains '' or '[UNK]'.
C6_Materializer ==
    TrainMaterialized =>
        /\ Len(X_train_words) = Len(X_train_vec)
        /\ \A i \in 1..Len(X_train_words) :
              /\ Len(X_train_words[i]) = Len(RealIds(X_train_vec[i]))
              /\ \A k \in 1..Len(X_train_words[i]) :
                    X_train_words[i][k] = vocab[RealIds(X_train_vec[i])[k] + 1]
              /\ mask_token \notin Range(X_train_words[i])
              /\ oov_token \notin Range(X_train_words[i])

\* one sequence with an unknown entry before a real one, and one with two
\* different real entries, have been materialized
C6_Witness ==
    /\ pc = "materialized"
    /\ \E i, j \in 1..Len(X_train_vec) :
          /\ X_train_vec[i][1] = 1
          /\ X_train_vec[i][2] >= 2
          /\ Len(X_train_words[i]) = 1
          /\ X_train_vec[j][1] >= 2
          /\ X_train_vec[j][2] = 0

\* every fixed-length sequence of indices of vocabulary v
IdSequences(v) == [1..seq_length -> 0..(Len(v) - 1)]

\* C7: for every TokenIdSequence s over the vocabulary, encoding the
\* space-joined materialized tokens of s gives a sequence with the same
\* non-0, non-1 indices as s, in the same order.
C7_RoundTrip ==
    pc # "start" =>
        \A s \in IdSequences(vocab) :
            RealIds(vectorize_layer(vocab, JoinWords(MaterializeWords(vocab, s))))
                = RealIds(s)

\* the vocabulary is full, so some sequence has two different real indices
\* and some sequence a real index after a padding or unknown entry
C7_Witness ==
    /\ pc = "materialized"
    /\ Len(vocab) = vocab_size
    /\ \E i \in 1..Len(X_train_vec) :
          /\ X_train_vec[i][1] >= 2
          /\ X_train_vec[i][2] >= 2
          /\ X_train_vec[i][1] # X_train_vec[i][2]

AssemblyOver == pc = "done" \/ (pc = "assembling" /\ token_idx = Len(vocab))

\* C8: once the assembly loop has ended, embeddings_cbow and
\* embeddings_skipgram have exactly vocab_size rows, for every training split.
C8_TableHasVocabSizeRows ==
    AssemblyOver =>
        /\ Len(embeddings_cbow) = vocab_size
        /\ Len(embeddings_skipgram) = vocab_size

\* C9, as far as a run of the notebook shows it: rows 0 and 1 of each
\* assembled table are rows 0 and 1 of that variant's embedding layer as it
\* was initialized. No run has a mapping with a vector for '' or '[UNK]'
\* (the materializer drops both before Word2Vec sees the token lists).
C9_ReservedRowsDefault ==
    pc = "assembling" =>
        \A i \in {0, 1} :
            i < token_idx =>
                /\ embeddings_cbow[i + 1] = layer_cbow[i + 1]
                /\ embeddings_skipgram[i + 1] = layer_skipgram[i + 1]

\* both reserved rows are assembled, the two default rows of the CBOW layer
\* differ, and a trained CBOW vector differs from default row 0 or row 1
C9_Witness ==
    /\ pc = "assembling"
    /\ token_idx = Len(vocab)
    /\ layer_cbow[1] # layer_cbow[2]
    /\ layer_skipgram[1] # layer_skipgram[2]
    /\ \E t \in DOMAIN wv_cbow : wv_cbow[t] # layer_cbow[2]

\* row idx of a table is the trained vector of the token at idx when there
\* is one, and the fallback vector otherwise
RowIsTrainedOrFallback(idx, table, wv, fallback) ==
    /\ vocab[idx + 1] \in DOMAIN wv => table[idx + 1] = wv[vocab[idx + 1]]
    /\ vocab[idx + 1] \notin DOMAIN wv => table[idx + 1] = fallback

\* C10: for every index i > 1, row i of each table is the trained vector of
\* vocab[i] when the trained mapping has one and the fallback vector (the
\* layer's default row 1) otherwise; assembling a row never fails.
C10_RowsTrainedOrFallback ==
    pc = "assembling" =>
        /\ Len(embeddings_cbow) = token_idx
        /\ Len(embeddings_skipgram) = token_idx
        /\ \A i \in 2..(token_idx - 1) :
              /\ RowIsTrainedOrFallback(i, embeddings_cbow, wv_cbow, layer_cbow[2])
              /\ RowIsTrainedOrFallback(i, embeddings_skipgram, wv_skipgram,
                                        layer_skipgram[2])

\* a table of vocab_size rows with one trained row and one fallback row that
\* differ, where default rows 0 and 1 differ as well
C10_Witness ==
    /\ pc = "assembling"
    /\ token_idx = vocab_size
    /\ layer_cbow[1] # layer_cbow[2]
    /\ \E i, j \in 2..(vocab_size - 1) :
          /\ vocab[i + 1] \in DOMAIN wv_cbow
          /\ vocab[j + 1] \notin DOMAIN wv_cbow
          /\ embeddings_cbow[i + 1] # embeddings_cbow[j + 1]
          /\ embeddings_cbow[j + 1] = layer_cbow[2]

\* C11: a vocabulary token that occurs fewer than min_count times in the
\* token lists has no vector in either trained mapping, and its row (index
\* above 1) in each table is the fallback vector, the layer's default row 1.
C11_RareTokensFallBack ==
    LET toks == Flatten(X_train_words)
        Rare(t) == Count(t, toks) < min_count
    IN  /\ \A t \in Range(vocab) :
              Rare(t) => t \notin DOMAIN wv_cbow /\ t \notin DOMAIN wv_skipgram
        /\ pc = "assembling" =>
              \A i \in 2..(token_idx - 1) :
                  Rare(vocab[i + 1]) =>
                      /\ embeddings_cbow[i + 1] = layer_cbow[2]
                      /\ embeddings_skipgram[i + 1] = layer_skipgram[2]

\* a full table in which a token seen once got the fallback vector while
\* another token was trained to a different vector
C11_Witness ==
    /\ pc = "assembling"
    /\ token_idx = vocab_size
    /\ \E i, j \in 2..(vocab_size - 1) :
          /\ Count(vocab[i + 1], Flatten(X_train_words)) = 1
          /\ vocab[j + 1] \in DOMAIN wv_skipgram
          /\ embeddings_skipgram[i + 1] = layer_skipgram[2]
          /\ embeddings_skipgram[j + 1] # layer_skipgram[2]

\* the vectors row idx of a variant's table may come from: the variant's
\* trained vector of the token, or the variant's default rows 0 and 1
RowSources(idx, wv, layer) ==
    {layer[1], layer[2]}
        \cup (IF vocab[idx + 1] \in DOMAIN wv THEN {wv[vocab[idx + 1]]} ELSE {})

\* C12: the two tables have the same shape, and each is built from its own
\* variant only: a CBOW row is the CBOW vector of its token or a default row
\* of the CBOW layer, a Skip-Gram row the Skip-Gram vector of its token or a
\* default row of the Skip-Gram layer.
C12_TablesIndependent ==
    /\ Len(embeddings_cbow) = Len(embeddings_skipgram)
    /\ pc = "assembling" =>
          \A i \in 0..(token_idx - 1) :
              /\ embeddings_cbow[i + 1] \in RowSources(i, wv_cbow, layer_cbow)
              /\ embeddings_skipgram[i + 1]
                    \in RowSources(i, wv_skipgram, layer_skipgram)

\* two full tables that differ in a trained row and in a default row
C12_Witness ==
    /\ pc = "assembling"
    /\ token_idx = vocab_size
    /\ embeddings_cbow[1] # embeddings_skipgram[1]
    /\ \E i \in 2..(vocab_size - 1) :
          /\ vocab[i + 1] \in DOMAIN wv_cbow
          /\ embeddings_cbow[i + 1] # embeddings_skipgram[i + 1]
          /\ embeddings_skipgram[i + 1] \notin {layer_skipgram[1], layer_skipgram[2]}

\* a step writes a variable when its value after differs from its value before
Writes(before, after) == before # after

\* C18: the stages run one after the other and none rewrites an earlier
\* stage's output: documents are encoded only with the adapted vocabulary,
\* training starts only when every document's token list is materialized,
\* table rows are assembled only when both mappings are trained, and the
\* vocabulary, the index sequences (of the test document and of the
\* training documents), the token lists and the trained mappings, once
\* written, never change (in particular not during table assembly).
C18_StagesSequential ==
    [][ /\ (Writes(X_train_vec, X_train_vec') \/ Writes(test_vec, test_vec'))
              => vocab # <<>> /\ vocab' = vocab
        /\ (Writes(wv_cbow, wv_cbow') \/ Writes(wv_skipgram, wv_skipgram'))
              => /\ Len(X_train_words) = Len(Xclean_train)
                 /\ X_train_words # <<>>
                 /\ X_train_words' = X_train_words
        /\ (Writes(embeddings_cbow, embeddings_cbow')
              \/ Writes(embeddings_skipgram, embeddings_skipgram'))
              => /\ wv_cbow # <<>> /\ wv_skipgram # <<>>
                 /\ UNCHANGED <<vocab, X_train_vec, X_train_words,
                                wv_cbow, wv_skipgram>>
        /\ vocab # <<>> => vocab' = vocab
        /\ X_train_vec # <<>> => X_train_vec' = X_train_vec
        /\ test_vec # <<>> => test_vec' = test_vec /\ test_doc' = test_doc
        /\ X_train_words # <<>> => X_train_words' = X_train_words
        /\ wv_cbow # <<>> => wv_cbow' = wv_cbow
        /\ wv_skipgram # <<>> => wv_skipgram' = wv_skipgram
      ]_vars

\* every stage has run and the tables are complete, with the earlier outputs
\* still those of their stages
C18_Witness ==
    /\ pc = "done"
    /\ Len(embeddings_cbow) = vocab_size
    /\ vocab = AdaptVocabulary(Xclean_train)
    /\ test_doc # <<>>
    /\ test_vec = vectorize_layer(vocab, test_doc)
    /\ TrainVectorized
    /\ TrainMaterialized
    /\ DOMAIN wv_cbow = TrainedKeys(X_train_words)
    /\ DOMAIN wv_skipgram = TrainedKeys(X_train_words)

\* the rows above 1 of a table whose token has no trained vector
UntrainedRows(table, wv) ==
    {i \in 2..(Len(table) - 1) : vocab[i + 1] \notin DOMAIN wv}

\* C19, as far as vocab_size = 4 shows it (a run has at most one row above 1
\* without a trained vector, since Word2Vec raises when it trains no token):
\* the fallback is the layer's row 1 as it was initialized, so in each
\* table every row above 1 whose token has no trained vector equals row 1 of
\* the same table, and all such rows are equal to each other; while the loop
\* runs, row 1 of the table is still row 1 of the layer.
C19_UntrainedRowsEqualRowOne ==
    /\ \A i \in UntrainedRows(embeddings_cbow, wv_cbow) :
          embeddings_cbow[i + 1] = embeddings_cbow[2]
    /\ \A i \in UntrainedRows(embeddings_skipgram, wv_skipgram) :
          embeddings_skipgram[i + 1] = embeddings_skipgram[2]
    /\ \A i, j \in UntrainedRows(embeddings_cbow, wv_cbow) :
          embeddings_cbow[i + 1] = embeddings_cbow[j + 1]
    /\ \A i, j \in UntrainedRows(embeddings_skipgram, wv_skipgram) :
          embeddings_skipgram[i + 1] = embeddings_skipgram[j + 1]
    /\ (pc = "assembling" /\ token_idx > 1) =>
          /\ embeddings_cbow[2] = layer_cbow[2]
          /\ embeddings_skipgram[2] = layer_skipgram[2]

\* a complete table with an untrained row above 1, on a layer whose own
\* default row at that index differs from its row 1
C19_Witness ==
    /\ pc = "assembling"
    /\ token_idx = vocab_size
    /\ \E i \in UntrainedRows(embeddings_cbow, wv_cbow) :
          /\ layer_cbow[i + 1] # layer_cbow[2]
          /\ embeddings_cbow[i + 1] = embeddings_cbow[2]

\* a normalized string: lower-case letters and single spaces, so without a
\* URL, markup or punctuation
NoUrlMarkupPunctuation(s) ==
    /\ Range(s) \subseteq Range(ascii_lowercase) \cup {" "}
    /\ JoinWords(whitespace_split(s)) = s

\* C13 as stated: normalizing an already-normalized string, which has no URL,
\* markup or punctuation, returns it unchanged.
C13_Idempotent ==
    (clean_pc = "recleaned" /\ NoUrlMarkupPunctuation(cleaned[1]))
        => recleaned[1] = cleaned[1]

\* "http" followed by at least one more character
HasUrlPrefix(t) ==
    \E i \in 1..(Len(t) - 4) : SubSeq(t, i, i + 3) = http

\* a token the steps of the normalizer leave alone
StableToken(t) ==
    /\ t \notin stopwords
    /\ ~HasUrlPrefix(t)
    /\ word_tokenize(t) = <<t>>
    /\ lemmatize(t, get_wordnet_pos(t)) = t

\* C13, amended: normalizing an already-normalized string returns it
\* unchanged when none of its tokens is a stopword, is changed by the
\* lemmatizer, is split by the tokenizer or holds "http" followed by another
\* character.
C13_IdempotentOnStableTokens ==
    (clean_pc = "recleaned"
        /\ \A t \in Range(whitespace_split(cleaned[1])) : StableToken(t))
        => recleaned[1] = cleaned[1]

\* a review that its normalization changed, into two or more stable tokens,
\* "http" among them, and that the second normalization left alone
C13_Witness ==
    /\ clean_pc = "recleaned"
    /\ review.text # cleaned[1]
    /\ Len(whitespace_split(cleaned[1])) >= 2
    /\ http \in Range(whitespace_split(cleaned[1]))
    /\ \A t \in Range(whitespace_split(cleaned[1])) : StableToken(t)
    /\ recleaned[1] = cleaned[1]

\* C14: the normalization of a value that is not a string fails with an error
\* and leaves no normalized output; it fails for no string.
C14_NonStringFails ==
    /\ review.kind # "str" =>
          /\ cleaned = <<>>
          /\ recleaned = <<>>
          /\ clean_pc \in {"raw", "error"}
    /\ clean_pc = "error" => review.kind # "str"

\* the normalization of a missing review (the float nan) has failed
C14_Witness ==
    /\ clean_pc = "error"
    /\ review.kind = "float"
    /\ cleaned = <<>>

\* C17: the steps run in the order URL removal, markup stripping, non-letters
\* to spaces, lower case, tokenization, stopword removal, lemmatization (noun
\* for an unrecognized tag), join. The output has only the letters a-z and
\* single spaces; its tokens are, in order, the lemmas of the tokens that the
\* stopword removal kept, so a stopword in the output is the lemma of a
\* different word, never a stopword the lemmatizer left unchanged.
C17_StepsInOrder ==
    clean_pc \in {"cleaned", "recleaned"} =>
        LET out == cleaned[1]
            toks == whitespace_split(out)
            kept == KeptTokens(review.text)
        IN  /\ Range(out) \subseteq Range(ascii_lowercase) \cup {" "}
            /\ JoinWords(toks) = out
            /\ Len(toks) = Len(kept)
            /\ \A k \in 1..Len(toks) :
                  /\ kept[k] \notin stopwords
                  /\ toks[k] = lemmatize(kept[k], get_wordnet_pos(kept[k]))
                  /\ toks[k] \in stopwords => toks[k] # kept[k]

\* a review with a capitalized stopword, which is dropped, whose output holds
\* a stopword that is the lemma of another word and the noun lemma of a word
\* with a tag get_wordnet_pos does not know
C17_Witness ==
    LET kept == KeptTokens(review.text)
        toks == whitespace_split(cleaned[1])
    IN  /\ clean_pc = "cleaned"
        /\ \E w \in Range(whitespace_split(lower(review.text))) :
              w \in stopwords /\ w \notin Range(whitespace_split(review.text))
        /\ \E k \in 1..Len(kept) :
              kept[k] \notin stopwords /\ toks[k] \in stopwords
        /\ \E k \in 1..Len(kept) :
              /\ pos_tag(kept[k])[1] \notin {"J", "N", "V", "R"}
              /\ toks[k] # kept[k]
              /\ toks[k] = lemmatize(kept[k], "n")

\* fit has run, or is the next statement, in the exercise cell
FitReached ==
    \/ exercise_pc \in {"weights_set", "cbow_fitted", "next_run", "finished"}
    \/ nr_run = 1
    \/ (cbow_mlp_model # <<>> /\ cbow_mlp_model.fitted)
    \/ (skipgram_mlp_model # <<>> /\ skipgram_mlp_model.fitted)
    \/ cbow_proba_pr # <<>>
    \/ skipgram_proba_pr # <<>>

\* the table has the shape (vocab_size, embeddings_dimension) of the
\* classifiers' embedding layers
TableFits(table) ==
    /\ Len(table) = vocab_size
    /\ \A i \in 1..Len(table) : Len(table[i]) = embeddings_dimension

\* C15: a table whose shape is not that of the classifier's embedding layer
\* makes set_weights fail, before fit: fit is reached only with both tables
\* of the layer's shape, and the cell stops in error exactly on a mismatch,
\* with no classifier fitted.
C15_MismatchStopsBeforeFit ==
    /\ FitReached => TableFits(embeddings_cbow) /\ TableFits(embeddings_skipgram)
    /\ exercise_pc = "error" =>
          /\ ~(TableFits(embeddings_cbow) /\ TableFits(embeddings_skipgram))
          /\ nr_run = 0
          /\ ~cbow_mlp_model.fitted /\ ~skipgram_mlp_model.fitted
          /\ cbow_mlp_model.weights = <<>> /\ skipgram_mlp_model.weights = <<>>

\* the exercise cell has stopped at set_weights on a table with fewer rows
\* than the layer
C15_Witness ==
    /\ exercise_pc = "error"
    /\ Len(embeddings_cbow) < vocab_size
    /\ cbow_mlp_model.input_dim = vocab_size
    /\ ~cbow_mlp_model.fitted

\* the classes are those of the probabilities: one class, 0 or 1, for each
\* probability, 1 exactly when the probability is at least 0.5
ClassesAtThreshold(proba_pr, class_pr) ==
    /\ Len(class_pr) = Len(proba_pr)
    /\ \A i \in 1..Len(proba_pr) :
          /\ class_pr[i] \in {0, 1}
          /\ class_pr[i] = 1 <=> 2 * proba_pr[i] >= 10000
          /\ proba_pr[i] = 5000 => class_pr[i] = 1
          /\ proba_pr[i] = 4999 => class_pr[i] = 0

\* C16: at the threshold 0.5 the class of a probability p is 1 exactly when
\* p >= 0.5; 0.5 itself is class 1 and 0.4999 is class 0. This holds of the
\* classes of both classifiers, in both runs.
C16_ThresholdInclusive ==
    /\ ClassesAtThreshold(cbow_proba_pr, cbow_class_pr)
    /\ ClassesAtThreshold(skipgram_proba_pr, skipgram_class_pr)

\* in the second run, a prediction of 0.5 and one of 0.4999 have their classes
C16_Witness ==
    /\ exercise_pc = "finished"
    /\ nr_run = 1
    /\ cbow_proba_pr[1] = 5000 /\ cbow_class_pr[1] = 1
    /\ skipgram_proba_pr[1] = 4999 /\ skipgram_class_pr[1] = 0

====
